---- MODULE Spec2Model ----
(***************************************************************************)
(* Model of the Jarvis catalog assistant: the column mapper and field      *)
(* synthesizer of the CatalogAssistant component, the /api/assistant       *)
(* route (dialogue and enrichment with their fallbacks) and the VoiceAgent *)
(* component that posts to it.                                             *)
(*                                                                         *)
(* Strings are sequences of one-character strings, so that lowercasing,    *)
(* splitting, trimming and substring search are computed, not assumed.     *)
(***************************************************************************)
EXTENDS Integers, Sequences, FiniteSets, TLC

VARIABLES
    files,            \* the two sheets the user has on disk, as the codec decodes them
    template,         \* CatalogAssistant state: template sheet, or Null
    raw,              \* CatalogAssistant state: raw sheet, or Null
    mappings,         \* CatalogAssistant state: template header -> raw header
    preview,          \* CatalogAssistant state: first rows of the materialized sheet
    exported,         \* rows handed to buildSheet by the last export
    lastOp,           \* the CatalogAssistant handler that ran last
    enrichmentNotes,  \* CatalogAssistant state: the enrichment playbook
    isGenerating,     \* CatalogAssistant state: the "Analysing..." flag
    activeMarketplace,\* CatalogAssistant state: the focus marketplace
    enriching,        \* the enrichment fetch not yet settled, or Null
    apiKey,           \* whether process.env.OPENAI_API_KEY is set
    pending,          \* the request body POST is handling, or Null
    served,           \* the last request POST answered, with its response, or Null
    messages,         \* VoiceAgent state: the conversation
    input,            \* VoiceAgent state: the text of the manual command box
    isProcessing,     \* VoiceAgent state: the "Thinking..." flag
    autoSpeak,        \* VoiceAgent state: the auto speak checkbox
    recognition,      \* useSpeechRecognition: state, result and recognitionRef
    engine,           \* the browser's recognizer: off, starting, running, stopping
    effectDeps,       \* the dependencies the two VoiceAgent effects last ran with
    inflight,         \* the fetches of /api/assistant not yet settled
    posts,            \* how many fetches of /api/assistant were issued
    userActions       \* how many submits the user initiated

catalogVars == <<files, template, raw, mappings, preview, exported, lastOp>>

serverVars == <<apiKey, pending, served>>

voiceVars == <<messages, input, isProcessing, autoSpeak, recognition, engine,
               effectDeps, inflight, posts, userActions>>

enrichVars == <<enrichmentNotes, isGenerating, activeMarketplace, enriching>>

vars == <<catalogVars, enrichVars, serverVars, voiceVars>>

-----------------------------------------------------------------------------
(* Characters and strings *)

UpperChars == <<"A","B","C","D","E","F","G","H","I","J","K","L","M","N","O","P","Q","R","S","T","U","V","W","X","Y","Z">>

LowerChars == <<"a","b","c","d","e","f","g","h","i","j","k","l","m","n","o","p","q","r","s","t","u","v","w","x","y","z">>

DigitChars == <<"0","1","2","3","4","5","6","7","8","9">>

\* The bullet glyph U+2022, one character of the source's regular expressions.
BulletGlyph == "U+2022"

\* What String.prototype.trim removes, among the characters of the model.
WhiteSpace == {" ", "\n", "\t"}

Range(s) == {s[i] : i \in DOMAIN s}

Min(S) == CHOOSE x \in S : \A y \in S : x <= y

\* One character of String.prototype.toLowerCase.
LowerChar(c) ==
    IF \E i \in DOMAIN UpperChars : UpperChars[i] = c
    THEN LowerChars[CHOOSE i \in DOMAIN UpperChars : UpperChars[i] = c]
    ELSE c

toLowerCase(s) == [i \in 1..Len(s) |-> LowerChar(s[i])]

\* The class [a-z0-9] of normalizeKey's regular expression.
AlnumChars == Range(LowerChars) \cup Range(DigitChars)

IsAlnum(c) == c \in AlnumChars

\* String.prototype.trim
trim(s) ==
    LET keep == {i \in DOMAIN s : s[i] \notin WhiteSpace}
    IN  IF keep = {} THEN <<>>
        ELSE SubSeq(s, Min(keep), CHOOSE i \in keep : \A j \in keep : j <= i)

\* String.prototype.includes
includes(s, t) ==
    \E i \in 0..(Len(s) - Len(t)) : SubSeq(s, i + 1, i + Len(t)) = t

\* s.replace(/[^a-z0-9]+/g, " "): every maximal run of characters outside the
\* class becomes one space.
RECURSIVE ReplaceRuns(_, _)
ReplaceRuns(s, i) ==
    IF i > Len(s) THEN <<>>
    ELSE IF IsAlnum(s[i]) THEN <<s[i]>> \o ReplaceRuns(s, i + 1)
    ELSE IF i = 1 \/ IsAlnum(s[i - 1]) THEN <<" ">> \o ReplaceRuns(s, i + 1)
    ELSE ReplaceRuns(s, i + 1)

normalizeKey(key) == trim(ReplaceRuns(toLowerCase(key), 1))

\* String.prototype.split on a set of one-character separators: the segments
\* between separators, empty ones included.
RECURSIVE split(_, _)
split(s, seps) ==
    LET cut == {i \in DOMAIN s : s[i] \in seps}
    IN  IF cut = {} THEN <<s>>
        ELSE <<SubSeq(s, 1, Min(cut) - 1)>>
                 \o split(SubSeq(s, Min(cut) + 1, Len(s)), seps)

\* Array.prototype.join
RECURSIVE join(_, _)
join(parts, sep) ==
    IF Len(parts) = 0 THEN <<>>
    ELSE IF Len(parts) = 1 THEN parts[1]
    ELSE parts[1] \o sep \o join(Tail(parts), sep)

\* String.prototype.slice(0, n)
slice(s, n) == SubSeq(s, 1, IF Len(s) < n THEN Len(s) ELSE n)

\* Array.prototype.find over the indexes its test accepts: the index of the
\* element returned, 0 for undefined.
find(hits) == IF hits = {} THEN 0 ELSE Min(hits)

\* obj[key] ?? "" for a row or a mapping
Lookup(obj, key) == IF key \in DOMAIN obj THEN obj[key] ELSE <<>>

-----------------------------------------------------------------------------
(* Column mapper *)

\* Object.entries order is the order of the literal.
synonymMatrix == <<
    [field |-> "sku", values |-> <<<<"s","k","u">>, <<"a","s","i","n">>, <<"i","t","e","m"," ","i","d">>, <<"p","a","r","e","n","t"," ","s","k","u">>, <<"p","r","o","d","u","c","t"," ","i","d">>>>],
    [field |-> "title", values |-> <<<<"t","i","t","l","e">>, <<"p","r","o","d","u","c","t"," ","t","i","t","l","e">>, <<"i","t","e","m"," ","n","a","m","e">>, <<"p","r","o","d","u","c","t"," ","n","a","m","e">>>>],
    [field |-> "description", values |-> <<<<"d","e","s","c","r","i","p","t","i","o","n">>, <<"p","r","o","d","u","c","t"," ","d","e","s","c","r","i","p","t","i","o","n">>, <<"l","o","n","g"," ","d","e","s","c">>, <<"d","e","t","a","i","l","s">>>>],
    [field |-> "brand", values |-> <<<<"b","r","a","n","d">>, <<"b","r","a","n","d"," ","n","a","m","e">>, <<"m","a","n","u","f","a","c","t","u","r","e","r">>>>],
    [field |-> "color", values |-> <<<<"c","o","l","o","r">>, <<"c","o","l","o","u","r">>, <<"s","h","a","d","e">>>>],
    [field |-> "size", values |-> <<<<"s","i","z","e">>, <<"d","i","m","e","n","s","i","o","n">>, <<"m","e","a","s","u","r","e","m","e","n","t">>>>],
    [field |-> "mrp", values |-> <<<<"m","r","p">>, <<"m","a","x","i","m","u","m"," ","r","e","t","a","i","l"," ","p","r","i","c","e">>, <<"l","i","s","t"," ","p","r","i","c","e">>>>],
    [field |-> "price", values |-> <<<<"p","r","i","c","e">>, <<"s","e","l","l","i","n","g"," ","p","r","i","c","e">>, <<"o","f","f","e","r"," ","p","r","i","c","e">>, <<"s","a","l","e"," ","p","r","i","c","e">>>>],
    [field |-> "quantity", values |-> <<<<"q","u","a","n","t","i","t","y">>, <<"s","t","o","c","k">>, <<"i","n","v","e","n","t","o","r","y">>, <<"a","v","a","i","l","a","b","l","e"," ","u","n","i","t","s">>>>],
    [field |-> "weight", values |-> <<<<"w","e","i","g","h","t">>, <<"i","t","e","m"," ","w","e","i","g","h","t">>, <<"u","n","i","t"," ","w","e","i","g","h","t">>>>],
    [field |-> "material", values |-> <<<<"m","a","t","e","r","i","a","l">>, <<"f","a","b","r","i","c">>, <<"p","r","i","m","a","r","y"," ","m","a","t","e","r","i","a","l">>>>],
    [field |-> "category", values |-> <<<<"c","a","t","e","g","o","r","y">>, <<"p","r","o","d","u","c","t"," ","t","y","p","e">>, <<"v","e","r","t","i","c","a","l">>, <<"m","y","n","t","r","a"," ","c","a","t","e","g","o","r","y">>, <<"f","l","i","p","k","a","r","t"," ","c","a","t","e","g","o","r","y">>>>]
>>

rawNormalized(rawSheet) ==
    [i \in DOMAIN rawSheet.headers |->
        [original |-> rawSheet.headers[i],
         normalized |-> normalizeKey(rawSheet.headers[i])]]

\* The three finds of one forEach iteration, each the index found or 0.
directMatch(target, rn) ==
    find({i \in DOMAIN rn : rn[i].normalized = target})

synonymEntry(target) ==
    find({i \in DOMAIN synonymMatrix : target \in Range(synonymMatrix[i].values)})

synonymMatch(target, rn) ==
    IF synonymEntry(target) = 0 THEN 0
    ELSE LET values == synonymMatrix[synonymEntry(target)].values
         IN  find({i \in DOMAIN rn :
                 \E k \in DOMAIN values : includes(rn[i].normalized, values[k])})

\* Mutant of fuzzyMatch: the fuzzy tier skipped for an empty first token.
fuzzyMatch_SkipsEmptyToken(target, rn) ==
    IF split(target, {" "})[1] = <<>> THEN 0
    ELSE find({i \in DOMAIN rn : includes(rn[i].normalized, split(target, {" "})[1])})

fuzzyMatch(target, rn) ==
    find({i \in DOMAIN rn : includes(rn[i].normalized, split(target, {" "})[1])})

\* Mutant of detectHeader: the synonym tier tried before the exact tier.
detectHeader_SynonymFirst(header, rn) ==
    LET target == normalizeKey(header)
    IN  IF synonymMatch(target, rn) # 0 THEN <<rn[synonymMatch(target, rn)].original>>
        ELSE IF directMatch(target, rn) # 0 THEN <<rn[directMatch(target, rn)].original>>
        ELSE IF fuzzyMatch(target, rn) # 0 THEN <<rn[fuzzyMatch(target, rn)].original>>
        ELSE <<>>

\* Mutant of detectHeader: the fuzzy tier tried before the synonym tier.
detectHeader_FuzzyBeforeSynonym(header, rn) ==
    LET target == normalizeKey(header)
    IN  IF directMatch(target, rn) # 0 THEN <<rn[directMatch(target, rn)].original>>
        ELSE IF fuzzyMatch(target, rn) # 0 THEN <<rn[fuzzyMatch(target, rn)].original>>
        ELSE IF synonymMatch(target, rn) # 0 THEN <<rn[synonymMatch(target, rn)].original>>
        ELSE <<>>

\* One iteration of template.headers.forEach: the raw header assigned to
\* mapping[header] as a one-element sequence, <<>> when none is assigned.
detectHeader(header, rn) ==
    LET target == normalizeKey(header)
    IN  IF directMatch(target, rn) # 0 THEN <<rn[directMatch(target, rn)].original>>
        ELSE IF synonymMatch(target, rn) # 0 THEN <<rn[synonymMatch(target, rn)].original>>
        ELSE IF fuzzyMatch(target, rn) # 0 THEN <<rn[fuzzyMatch(target, rn)].original>>
        ELSE <<>>

autoDetectMappings(templateSheet, rawSheet) ==
    LET rn == rawNormalized(rawSheet)
        mapped == {h \in Range(templateSheet.headers) : detectHeader(h, rn) # <<>>}
    IN  [h \in mapped |-> detectHeader(h, rn)[1]]

-----------------------------------------------------------------------------
(* Field synthesizer and row materializer *)

\* mapping[header] as the condition of an if: set and not the empty string.
sourceColumn(mapping, header) == Lookup(mapping, header)

\* rawHeaders.find((key) => normalizeKey(key).includes(word)) ?? ""
findRawHeader(rawHeaders, word) ==
    LET i == find({k \in DOMAIN rawHeaders : includes(normalizeKey(rawHeaders[k]), word)})
    IN  IF i = 0 THEN <<>> ELSE rawHeaders[i]

\* The title rule: `${brand ? `${brand} ` : ""}${name}`.trim()
titleFill(row, rawHeaders) ==
    LET brand == Lookup(row, findRawHeader(rawHeaders, <<"b","r","a","n","d">>))
        name == Lookup(row, findRawHeader(rawHeaders, <<"n","a","m","e">>))
    IN  trim((IF brand # <<>> THEN brand \o <<" ">> ELSE <<>>) \o name)

\* desc of the bullet rule; <<>> stands for every falsy value (absent or empty).
bulletDesc(row, rawHeaders) == Lookup(row, findRawHeader(rawHeaders, <<"d","e","s","c","r","i","p","t","i","o","n">>))

BulletMinLength == 20

BulletMaxLength == 180

\* segments.find((segment) => segment.length > 20)?.slice(0, 180) ?? ""
bulletFill(desc) ==
    LET parts == split(desc, {".", "|", BulletGlyph, "\n"})
        segments == [i \in DOMAIN parts |-> trim(parts[i])]
        i == find({k \in DOMAIN segments : Len(segments[k]) > BulletMinLength})
    IN  IF i = 0 THEN <<>> ELSE slice(segments[i], BulletMaxLength)

\* Mutant of keywordKeys: the keys taken in another order.
keywordKeys_ColorFirst == <<<<"c","o","l","o","r">>, <<"m","a","t","e","r","i","a","l">>, <<"s","i","z","e">>, <<"c","a","t","e","g","o","r","y">>>>

keywordKeys == <<<<"m","a","t","e","r","i","a","l">>, <<"c","o","l","o","r">>, <<"s","i","z","e">>, <<"c","a","t","e","g","o","r","y">>>>

\* The keywords rule: the truthy cells of the four keys, lowercased, joined.
keywordsFill(row, rawHeaders) ==
    LET value(key) == Lookup(row, findRawHeader(rawHeaders, key))
        pushed == SelectSeq([k \in DOMAIN keywordKeys |-> value(keywordKeys[k])],
                            LAMBDA v : v # <<>>)
        lowered == [k \in DOMAIN pushed |-> toLowerCase(pushed[k])]
    IN  join(SelectSeq(lowered, LAMBDA v : v # <<>>), <<","," ">>)

\* The smart-fill heuristics of one unmapped header. The bullet rule returns
\* only inside `if (desc)`; with a falsy desc control falls to the next rule.
smartFill(header, row, rawHeaders) ==
    LET normalized == normalizeKey(header)
    IN  IF includes(normalized, <<"t","i","t","l","e">>) THEN titleFill(row, rawHeaders)
        ELSE IF includes(normalized, <<"b","u","l","l","e","t">>) /\ bulletDesc(row, rawHeaders) # <<>>
             THEN bulletFill(bulletDesc(row, rawHeaders))
        ELSE IF includes(normalized, <<"k","e","y","w","o","r","d","s">>) THEN keywordsFill(row, rawHeaders)
        ELSE <<>>

\* Mutant of cellFor: `if (header in mapping)` for `if (sourceColumn)`, so
\* an entry set to the empty string reads row[""] ?? "".
cellFor_EmptyIsMapped(header, row, mapping, rawHeaders) ==
    IF header \in DOMAIN mapping
    THEN Lookup(row, mapping[header])
    ELSE smartFill(header, row, rawHeaders)

\* One iteration of headers.forEach in buildRowFromMappings.
cellFor(header, row, mapping, rawHeaders) ==
    IF sourceColumn(mapping, header) # <<>>
    THEN Lookup(row, sourceColumn(mapping, header))
    ELSE smartFill(header, row, rawHeaders)

\* Mutant of buildRowFromMappings: the closing `result[header] = ""` left out,
\* so a header no rule fills gets no key.
buildRowFromMappings_NoDefault(headers, row, mapping, rawHeaders) ==
    LET filled(header) ==
            \/ sourceColumn(mapping, header) # <<>>
            \/ includes(normalizeKey(header), <<"t","i","t","l","e">>)
            \/ includes(normalizeKey(header), <<"b","u","l","l","e","t">>) /\ bulletDesc(row, rawHeaders) # <<>>
            \/ includes(normalizeKey(header), <<"k","e","y","w","o","r","d","s">>)
    IN  [header \in {h \in Range(headers) : filled(h)} |->
            cellFor(header, row, mapping, rawHeaders)]

buildRowFromMappings(headers, row, mapping, rawHeaders) ==
    [header \in Range(headers) |-> cellFor(header, row, mapping, rawHeaders)]

\* raw.rows.map((row) => buildRowFromMappings(...)), shared by updatePreview
\* and generateFullWorkbook.
materialize(templateSheet, rawSheet, mapping) ==
    [i \in DOMAIN rawSheet.rows |->
        buildRowFromMappings(templateSheet.headers, rawSheet.rows[i], mapping,
                             rawSheet.headers)]

-----------------------------------------------------------------------------
(* CatalogAssistant component *)

\* useState(null): an optional sheet is <<>> or <<sheet>>.
Null == <<>>

PreviewLimit == 25

\* rows.slice(0, 25)
firstRows(rows) == SubSeq(rows, 1, IF Len(rows) < PreviewLimit THEN Len(rows) ELSE PreviewLimit)

\* The two effects that follow a change of template or raw: autoDetect when
\* both sheets are set, then updatePreview with the resulting mappings.
mappingsAfterUpload(t, r) ==
    IF t # Null /\ r # Null THEN autoDetectMappings(t[1], r[1]) ELSE mappings

previewAfter(t, r, m) ==
    IF t # Null /\ r # Null THEN firstRows(materialize(t[1], r[1], m)) ELSE preview

\* Mutant of handleFileUpload: the `if (!data.headers.length) throw` left out.
handleFileUpload_NoHeaderCheck(type) ==
    LET data == files[type]
        t == IF type = "template" THEN <<data>> ELSE template
        r == IF type = "raw" THEN <<data>> ELSE raw
    IN  /\ template' = t
        /\ raw' = r
        /\ mappings' = mappingsAfterUpload(t, r)
        /\ preview' = previewAfter(t, r, mappingsAfterUpload(t, r))
        /\ lastOp' = "upload"

\* handleFileUpload: a sheet without headers throws before any setState.
handleFileUpload(type) ==
    LET data == files[type]
        t == IF type = "template" THEN <<data>> ELSE template
        r == IF type = "raw" THEN <<data>> ELSE raw
    IN  IF Len(data.headers) = 0
        THEN /\ lastOp' = "uploadRejected"
             /\ UNCHANGED <<template, raw, mappings, preview>>
        ELSE /\ template' = t
             /\ raw' = r
             /\ mappings' = mappingsAfterUpload(t, r)
             /\ preview' = previewAfter(t, r, mappingsAfterUpload(t, r))
             /\ lastOp' = "upload"

UploadTemplate ==
    /\ handleFileUpload("template")
    /\ exported' = Null
    /\ UNCHANGED <<files, serverVars, voiceVars, enrichVars>>

UploadRaw ==
    /\ handleFileUpload("raw")
    /\ exported' = Null
    /\ UNCHANGED <<files, serverVars, voiceVars, enrichVars>>

\* The file the user selects in a file input next: event.target.files?.[0].
PickFile(type, sheet) ==
    /\ files[type] # sheet
    /\ files' = [files EXCEPT ![type] = sheet]
    /\ UNCHANGED <<template, raw, mappings, preview, exported, lastOp,
                   serverVars, voiceVars, enrichVars>>

\* Mutant of withEntry: the object is rebuilt from the one pair, the spread
\* of the previous Mapping left out.
withEntry_DropsOthers(prev, header, value) ==
    [h \in {header} |-> value]

\* setMappings((prev) => ({ ...prev, [header]: value }))
withEntry(prev, header, value) ==
    [h \in DOMAIN prev \cup {header} |-> IF h = header THEN value ELSE prev[h]]

\* The select of one template header, rendered once both sheets are set; its
\* options are "-- Empty --" (the empty string) and the raw headers.
handleMappingChange(header, value) ==
    /\ template # Null /\ raw # Null
    /\ mappings' = withEntry(mappings, header, value)
    /\ preview' = previewAfter(template, raw, withEntry(mappings, header, value))
    /\ lastOp' = "mappingChange"
    /\ exported' = Null
    /\ UNCHANGED <<files, template, raw>>

MappingChange ==
    /\ template # Null /\ raw # Null
    /\ \E header \in Range(template[1].headers) :
         \E value \in {<<>>} \cup Range(raw[1].headers) :
            /\ Lookup(mappings, header) # value
            /\ handleMappingChange(header, value)
    /\ UNCHANGED <<serverVars, voiceVars, enrichVars>>

\* generateFullWorkbook: the headers and rows handed to buildSheet.
generateFullWorkbook ==
    /\ template # Null /\ raw # Null
    /\ exported' = <<[headers |-> template[1].headers,
                      rows |-> materialize(template[1], raw[1], mappings)]>>
    /\ lastOp' = "export"
    /\ UNCHANGED <<files, template, raw, mappings, preview, serverVars, voiceVars, enrichVars>>

-----------------------------------------------------------------------------
(* The /api/assistant route *)

CatalogReply == <<"I","'","m"," ","r","e","a","d","y"," ","t","o"," ","t","r","a","n","s","f","o","r","m"," ","y","o","u","r"," ","c","a","t","a","l","o","g","."," ","U","p","l","o","a","d"," ","t","h","e"," ","m","a","r","k","e","t","p","l","a","c","e"," ","t","e","m","p","l","a","t","e"," ","a","n","d"," ","r","a","w"," ","s","h","e","e","t"," ","i","n"," ","t","h","e"," ","C","a","t","a","l","o","g"," ","A","u","t","o","p","i","l","o","t"," ","p","a","n","e","l","."," ","A","f","t","e","r"," ","m","a","p","p","i","n","g",","," ","u","s","e"," ","\"","E","n","r","i","c","h"," ","c","o","p","y"," ","&"," ","S","E","O","\""," ","f","o","r"," ","o","p","t","i","m","i","z","a","t","i","o","n"," ","t","i","p","s",".">>

TaskReply == <<"I","'","v","e"," ","s","c","h","e","d","u","l","e","d"," ","a"," ","r","e","m","i","n","d","e","r"," ","i","n"," ","y","o","u","r"," ","d","a","i","l","y"," ","d","a","s","h","b","o","a","r","d"," ","a","n","d"," ","l","i","n","k","e","d"," ","i","t"," ","w","i","t","h"," ","t","h","e"," ","m","a","r","k","e","t","p","l","a","c","e"," ","a","c","t","i","o","n"," ","i","t","e","m","s",".">>

StandbyReply == <<"J","a","r","v","i","s"," ","i","s"," ","o","n","l","i","n","e","."," ","I"," ","c","o","u","l","d","n","'","t"," ","r","e","a","c","h"," ","t","h","e"," ","l","a","n","g","u","a","g","e"," ","m","o","d","e","l",","," ","b","u","t"," ","y","o","u"," ","c","a","n"," ","c","o","n","t","i","n","u","e"," ","u","s","i","n","g"," ","t","h","e"," ","C","a","t","a","l","o","g"," ","A","u","t","o","p","i","l","o","t"," ","o","n"," ","t","h","e"," ","r","i","g","h","t",".">>

DefaultReply == <<"I"," ","h","a","v","e"," ","p","r","o","c","e","s","s","e","d"," ","t","h","e"," ","t","a","s","k",".">>

BackendError == <<"J","a","r","v","i","s"," ","b","a","c","k","e","n","d"," ","e","r","r","o","r">>

EnrichmentFallback == <<
    <<"T","i","g","h","t","e","n"," ","y","o","u","r"," ","k","e","y","w","o","r","d"," ","d","e","n","s","i","t","y"," ","(","b","r","a","n","d"," ","+"," ","u","s","a","g","e"," ","+"," ","m","a","t","e","r","i","a","l",")"," ","t","o"," ","l","i","f","t"," ","v","i","s","i","b","i","l","i","t","y",".">>,
    <<"S","t","a","n","d","a","r","d","i","z","e"," ","b","u","l","l","e","t"," ","p","o","i","n","t","s"," ","w","i","t","h"," ","1","8","0"," ","c","h","a","r","a","c","t","e","r"," ","c","o","n","c","i","s","i","o","n"," ","a","n","d"," ","f","e","a","t","u","r","e","-","f","i","r","s","t"," ","c","o","p","y",".">>,
    <<"C","r","o","s","s","-","c","h","e","c","k"," ","t","a","x","o","n","o","m","y"," ","f","o","r"," ","e","v","e","r","y"," ","c","h","a","n","n","e","l",":"," ","A","m","a","z","o","n"," ","b","r","o","w","s","e"," ","n","o","d","e"," ","v","s","."," ","M","y","n","t","r","a"," ","g","e","n","d","e","r"," ","c","a","t","e","g","o","r","y"," ","v","s","."," ","F","l","i","p","k","a","r","t"," ","v","e","r","t","i","c","a","l",".">>,
    <<"A","t","t","a","c","h"," ","c","o","m","p","l","i","a","n","c","e"," ","d","o","c","s"," ","(","G","S","T",","," ","p","r","o","d","u","c","t"," ","c","e","r","t","i","f","i","c","a","t","i","o","n","s",")"," ","f","o","r"," ","r","e","s","t","r","i","c","t","e","d"," ","c","a","t","e","g","o","r","i","e","s"," ","b","e","f","o","r","e"," ","u","p","l","o","a","d",".">>
>>

\* regex.test(message) for an alternation of literal lowercase words under
\* the i flag: the words are sought in the message with its ASCII letters
\* lowercased.
testAny(message, words) == \E w \in words : includes(toLowerCase(message), w)

\* Mutant of fallbackJarvis: the task rule tested before the catalog rule.
fallbackJarvis_TaskRuleFirst(message) ==
    IF testAny(message, {<<"t","a","s","k">>, <<"r","e","m","i","n","d">>, <<"s","c","h","e","d","u","l","e">>}) THEN TaskReply
    ELSE IF testAny(message, {<<"c","a","t","a","l","o","g">>, <<"s","h","e","e","t">>, <<"l","i","s","t","i","n","g">>}) THEN CatalogReply
    ELSE StandbyReply

fallbackJarvis(message) ==
    IF testAny(message, {<<"c","a","t","a","l","o","g">>, <<"s","h","e","e","t">>, <<"l","i","s","t","i","n","g">>}) THEN CatalogReply
    ELSE IF testAny(message, {<<"t","a","s","k">>, <<"r","e","m","i","n","d">>, <<"s","c","h","e","d","u","l","e">>}) THEN TaskReply
    ELSE StandbyReply

\* What client.responses.create does with a request: it resolves with a
\* response whose output_text is a string (<<text>>) or absent (<<>>), or it
\* rejects with a transport or provider error.
Resolved(text) == [kind |-> "resolve", output_text |-> text]

Rejected == [kind |-> "reject", output_text |-> <<>>]

\* withOpenAI: null without an API key, else the callback's promise itself.
NoClient == [kind |-> "null", output_text |-> <<>>]

\* Mutant of withOpenAI: the `if (!apiKey) return null` guard left out.
withOpenAI_IgnoresKey(call) == call

withOpenAI(call) == IF apiKey THEN call ELSE NoClient

\* The result of an async function: the value it resolves with, or a throw.
Returns(value) == [threw |-> FALSE, value |-> value]

Throws == [threw |-> TRUE, value |-> <<>>]

\* handleAssistant has no try/catch: a rejected create rejects it too.
\* `output_text ?? default` replaces an absent text only, not an empty one.
handleAssistant(message, history, call) ==
    LET response == withOpenAI(call)
    IN  IF response.kind = "reject" THEN Throws
        ELSE IF response.kind = "null" THEN Returns(fallbackJarvis(message))
        ELSE IF response.output_text = <<>> THEN Returns(DefaultReply)
        ELSE Returns(response.output_text[1])

\* The class [-\u2022\d.\s] of handleEnrichment's line.replace.
MarkerChars == {"-", BulletGlyph, "."} \cup Range(DigitChars) \cup WhiteSpace

\* line.replace(/^[-\u2022\d.\s]+/, "").trim()
stripMarkers(line) ==
    LET kept == {i \in DOMAIN line : line[i] \notin MarkerChars}
    IN  IF kept = {} THEN <<>> ELSE trim(SubSeq(line, Min(kept), Len(line)))

\* text.split(/\n+/).map(...).filter(Boolean): the empty segments that
\* splitting on single newlines adds are dropped by the filter.
parseInsights(text) ==
    LET lines == split(text, {"\n"})
        stripped == [i \in DOMAIN lines |-> stripMarkers(lines[i])]
    IN  SelectSeq(stripped, LAMBDA line : line # <<>>)

\* handleEnrichment has no try/catch either.
handleEnrichment(payload, call) ==
    LET response == withOpenAI(call)
    IN  IF response.kind = "reject" THEN Throws
        ELSE IF response.kind = "null" THEN Returns(EnrichmentFallback)
        ELSE IF response.output_text = <<>> THEN Returns(parseInsights(<<>>))
        ELSE Returns(parseInsights(response.output_text[1]))

\* The JSON responses of POST.
JsonReply(reply) ==
    [status |-> 200, kind |-> "reply", reply |-> reply, enrichment |-> <<>>, error |-> <<>>]

JsonEnrichment(enrichment) ==
    [status |-> 200, kind |-> "enrichment", reply |-> <<>>, enrichment |-> enrichment, error |-> <<>>]

JsonError ==
    [status |-> 500, kind |-> "error", reply |-> <<>>, enrichment |-> <<>>, error |-> BackendError]

\* body.mode ?? "text"
modeOf(body) == IF body.mode = "absent" THEN "text" ELSE body.mode

\* POST: the one try/catch of the route turns every throw into a 500.
POST(body, call) ==
    IF modeOf(body) = "catalog-enrichment"
    THEN LET enrichment == handleEnrichment([marketplace |-> body.marketplace,
                                             sample |-> body.sample], call)
         IN  IF enrichment.threw THEN JsonError ELSE JsonEnrichment(enrichment.value)
    ELSE LET reply == handleAssistant(body.message, body.history, call)
         IN  IF reply.threw THEN JsonError ELSE JsonReply(reply.value)

\* The route as a process: a request arrives, the gateway call settles one
\* way or another, the response is sent.
Receive(body) ==
    /\ pending = Null
    /\ pending' = <<body>>
    /\ UNCHANGED <<apiKey, served, catalogVars, voiceVars, enrichVars>>

Respond(call) ==
    /\ pending # Null
    /\ served' = <<[body |-> pending[1], call |-> call,
                    response |-> POST(pending[1], call)]>>
    /\ pending' = Null
    /\ UNCHANGED <<apiKey, catalogVars, voiceVars, enrichVars>>

-----------------------------------------------------------------------------
(* VoiceAgent component and the useSpeechRecognition hook *)

defaultPrompts == <<
    <<"S","u","m","m","a","r","i","s","e"," ","m","y"," ","A","m","a","z","o","n"," ","o","r","d","e","r"," ","K","P","I","s"," ","f","o","r"," ","t","h","e"," ","w","e","e","k",".">>,
    <<"D","r","a","f","t"," ","l","i","s","t","i","n","g"," ","c","o","p","y"," ","f","o","r"," ","a"," ","M","e","n","'","s"," ","r","u","n","n","i","n","g"," ","s","h","o","e",".">>,
    <<"P","l","a","n"," ","a"," ","p","r","o","d","u","c","t"," ","l","a","u","n","c","h"," ","s","c","h","e","d","u","l","e"," ","f","o","r"," ","F","l","i","p","k","a","r","t",".">>,
    <<"W","h","a","t"," ","c","a","t","a","l","o","g"," ","g","a","p","s"," ","d","o"," ","y","o","u"," ","s","e","e"," ","f","o","r"," ","m","y"," ","M","e","e","s","h","o"," ","r","a","n","g","e","?">>
>>

ApologyReply == <<"J","a","r","v","i","s"," ","h","i","t"," ","a"," ","s","n","a","g"," ","r","e","a","c","h","i","n","g"," ","o","u","r"," ","i","n","t","e","l","l","i","g","e","n","c","e"," ","c","o","r","e","."," ","P","l","e","a","s","e"," ","c","h","e","c","k"," ","t","h","e"," ","s","e","r","v","e","r"," ","l","o","g","s"," ","o","r"," ","y","o","u","r"," ","O","p","e","n","A","I"," ","k","e","y",".">>

HistoryWindow == 6

MaxPosts == 2

\* messages.slice(-6)
lastTurns(msgs) ==
    IF Len(msgs) <= HistoryWindow THEN msgs
    ELSE SubSeq(msgs, Len(msgs) - HistoryWindow + 1, Len(msgs))

\* The dependency arrays of the two effects as the current render sees them.
\* handleSubmit is a new function whenever input, messages or playSpeech
\* (that is, autoSpeak) changed.
inputEffectDeps == recognition.transcript

submitEffectDeps == <<input, messages, autoSpeak, recognition.isFinal, recognition.transcript>>

\* An effect of the last render has not run yet. React flushes the pending
\* effects before it handles an event or renders again.
EffectsPending ==
    \/ effectDeps.input # inputEffectDeps
    \/ effectDeps.submit # submitEffectDeps

\* JSON.stringify({ message, history, mode }); the fields the client leaves
\* out carry the route's defaults.
dialogueBody(content, fromVoice) ==
    [mode |-> IF fromVoice THEN "voice" ELSE "text",
     message |-> content,
     history |-> [i \in DOMAIN lastTurns(messages) |->
                     [role |-> lastTurns(messages)[i].role,
                      content |-> lastTurns(messages)[i].content]],
     marketplace |-> "Amazon",
     sample |-> <<>>]

\* handleSubmit up to its await: nothing for an empty content, else the flag,
\* the cleared input, the user turn and the fetch.
handleSubmit(text, fromVoice) ==
    LET content == trim(text)
    IN  IF content = <<>>
        THEN UNCHANGED <<messages, input, isProcessing, inflight, posts>>
        ELSE /\ posts < MaxPosts
             /\ isProcessing' = TRUE
             /\ input' = <<>>
             /\ messages' = Append(messages, [role |-> "user", content |-> content])
             /\ inflight' = Append(inflight, dialogueBody(content, fromVoice))
             /\ posts' = posts + 1

\* The effects of one render, in declaration order: the transcript is copied
\* to the input, and a final transcript is submitted. Both setInput calls are
\* batched, the later one decides.
RunEffects ==
    /\ EffectsPending
    /\ LET copies == effectDeps.input # inputEffectDeps /\ recognition.transcript # <<>>
           submits == /\ effectDeps.submit # submitEffectDeps
                      /\ recognition.isFinal /\ recognition.transcript # <<>>
       IN  IF submits
           THEN handleSubmit(recognition.transcript, TRUE)
           ELSE /\ input' = IF copies THEN recognition.transcript ELSE input
                /\ UNCHANGED <<messages, isProcessing, inflight, posts>>
    /\ effectDeps' = [input |-> inputEffectDeps, submit |-> submitEffectDeps]
    /\ UNCHANGED <<autoSpeak, recognition, engine, userActions, catalogVars, serverVars, enrichVars>>

\* onChange of the textarea
Type(text) ==
    /\ ~EffectsPending
    /\ text # input
    /\ input' = text
    /\ UNCHANGED <<messages, isProcessing, autoSpeak, recognition, engine, effectDeps,
                   inflight, posts, userActions, catalogVars, serverVars, enrichVars>>

\* The Send button, disabled while processing or without text.
ClickSend ==
    /\ ~EffectsPending
    /\ ~(isProcessing \/ trim(input) = <<>>)
    /\ handleSubmit(input, FALSE)
    /\ userActions' = userActions + 1
    /\ UNCHANGED <<autoSpeak, recognition, engine, effectDeps, catalogVars, serverVars, enrichVars>>

\* A quick-cue button, never disabled.
ClickCue(prompt) ==
    /\ ~EffectsPending
    /\ handleSubmit(prompt, FALSE)
    /\ userActions' = userActions + 1
    /\ UNCHANGED <<autoSpeak, recognition, engine, effectDeps, catalogVars, serverVars, enrichVars>>

ToggleAutoSpeak ==
    /\ ~EffectsPending
    /\ autoSpeak' = ~autoSpeak
    /\ UNCHANGED <<messages, input, isProcessing, recognition, engine, effectDeps,
                   inflight, posts, userActions, catalogVars, serverVars, enrichVars>>

\* toggleMic: stop() while listening, else start(), which does nothing once
\* recognitionRef is null and throws (ignored) on a started recognizer.
ToggleMic ==
    /\ ~EffectsPending
    /\ recognition.state # "unsupported"
    /\ recognition.ref
    /\ IF recognition.state = "listening"
       THEN engine \in {"starting", "running"} /\ engine' = "stopping"
       ELSE engine = "off" /\ engine' = "starting"
    /\ UNCHANGED <<messages, input, isProcessing, autoSpeak, recognition, effectDeps,
                   inflight, posts, userActions, catalogVars, serverVars, enrichVars>>

\* recognition.onstart
OnStart ==
    /\ ~EffectsPending
    /\ engine = "starting"
    /\ engine' = "running"
    /\ recognition' = [recognition EXCEPT !.state = "listening", !.error = FALSE,
                                          !.transcript = <<>>, !.isFinal = FALSE]
    /\ UNCHANGED <<messages, input, isProcessing, autoSpeak, effectDeps,
                   inflight, posts, userActions, catalogVars, serverVars, enrichVars>>

\* recognition.onresult: the joined, trimmed transcript of the session and
\* the finality of its last result. A final, non-empty transcript is one
\* voice submit of the user.
OnResult(text, final) ==
    /\ ~EffectsPending
    /\ engine \in {"running", "stopping"}
    /\ <<text, final>> # <<recognition.transcript, recognition.isFinal>>
    /\ recognition' = [recognition EXCEPT !.transcript = trim(text), !.isFinal = final]
    /\ userActions' = IF final /\ trim(text) # <<>> THEN userActions + 1 ELSE userActions
    /\ UNCHANGED <<messages, input, isProcessing, autoSpeak, engine, effectDeps,
                   inflight, posts, catalogVars, serverVars, enrichVars>>

\* recognition.onerror
OnError ==
    /\ ~EffectsPending
    /\ engine \in {"starting", "running"}
    /\ engine' = "stopping"
    /\ recognition' = [recognition EXCEPT !.state = "error", !.error = TRUE]
    /\ UNCHANGED <<messages, input, isProcessing, autoSpeak, effectDeps,
                   inflight, posts, userActions, catalogVars, serverVars, enrichVars>>

\* recognition.onend
OnEnd ==
    /\ ~EffectsPending
    /\ engine = "stopping"
    /\ engine' = "off"
    /\ recognition' = [recognition EXCEPT !.state = "idle", !.ref = FALSE]
    /\ UNCHANGED <<messages, input, isProcessing, autoSpeak, effectDeps,
                   inflight, posts, userActions, catalogVars, serverVars, enrichVars>>

\* What a fetch settles with: the route's response, or a network failure.
NetworkFailure ==
    [status |-> 0, kind |-> "failure", reply |-> <<>>, enrichment |-> <<>>, error |-> <<>>]

\* handleSubmit from its await on, for the i-th pending fetch: the reply or,
\* when fetch rejects or the response is not ok, the apology; then the
\* finally block.
Settle(i, result) ==
    /\ ~EffectsPending
    /\ i \in DOMAIN inflight
    /\ messages' = Append(messages,
           [role |-> "assistant",
            content |-> IF result.status = 200 THEN result.reply ELSE ApologyReply])
    /\ isProcessing' = FALSE
    /\ inflight' = [k \in 1..(Len(inflight) - 1) |->
                        IF k < i THEN inflight[k] ELSE inflight[k + 1]]
    /\ UNCHANGED <<input, autoSpeak, recognition, engine, effectDeps, posts,
                   userActions, catalogVars, serverVars, enrichVars>>

-----------------------------------------------------------------------------
(* CatalogAssistant enrichment *)

marketplaces == <<"Amazon", "Flipkart", "Meesho", "Myntra">>

EnrichmentUnreachable == <<"C","o","u","l","d"," ","n","o","t"," ","r","e","a","c","h"," ","e","n","r","i","c","h","m","e","n","t"," ","m","o","d","e","l","."," ","P","l","e","a","s","e"," ","v","e","r","i","f","y"," ","t","h","e"," ","s","e","r","v","e","r","l","e","s","s"," ","f","u","n","c","t","i","o","n"," ","a","n","d"," ","O","p","e","n","A","I"," ","c","r","e","d","e","n","t","i","a","l","s",".">>

SampleLimit == 5

\* onChange of the marketplace select
SelectMarketplace(marketplace) ==
    /\ marketplace # activeMarketplace
    /\ activeMarketplace' = marketplace
    /\ UNCHANGED <<enrichmentNotes, isGenerating, enriching, catalogVars, serverVars, voiceVars>>

\* JSON.stringify({ mode, marketplace, sample: preview.slice(0, 5) })
enrichmentBody ==
    [mode |-> "catalog-enrichment",
     message |-> <<>>,
     history |-> <<>>,
     marketplace |-> activeMarketplace,
     sample |-> SubSeq(preview, 1, IF Len(preview) < SampleLimit THEN Len(preview) ELSE SampleLimit)]

\* runEnrichment up to its await. The button is rendered once both sheets are
\* set and is disabled while generating; without preview rows the click
\* returns at once.
RunEnrichment ==
    /\ template # Null /\ raw # Null
    /\ ~isGenerating
    /\ userActions < MaxPosts
    /\ userActions' = userActions + 1
    /\ IF Len(preview) = 0
       THEN UNCHANGED <<isGenerating, enriching, posts>>
       ELSE /\ posts < MaxPosts
            /\ isGenerating' = TRUE
            /\ enriching' = <<enrichmentBody>>
            /\ posts' = posts + 1
    /\ lastOp' = "enrich"
    /\ exported' = Null
    /\ UNCHANGED <<files, template, raw, mappings, preview, enrichmentNotes,
                   activeMarketplace, serverVars, messages, input, isProcessing,
                   autoSpeak, recognition, engine, effectDeps, inflight>>

\* runEnrichment from its await on: the notes of an ok response, the single
\* apology when fetch rejects or the response is not ok; then the finally
\* block.
SettleEnrichment(result) ==
    /\ enriching # Null
    /\ enrichmentNotes' = IF result.status = 200 THEN result.enrichment
                          ELSE <<EnrichmentUnreachable>>
    /\ isGenerating' = FALSE
    /\ enriching' = Null
    /\ UNCHANGED <<activeMarketplace, catalogVars, serverVars, voiceVars>>

-----------------------------------------------------------------------------
(* Inputs: the sheets a user may upload *)

MaxTemplateHeaders == 2

MaxRawHeaders == 2

MaxRows == 2

\* The sequences of 1..n distinct elements of pool.
DistinctSeqs(pool, n) ==
    UNION {{s \in [1..k -> pool] : \A i, j \in 1..k : i # j => s[i] # s[j]} : k \in 1..n}

\* All sequences of at most n elements of pool.
SeqsUpTo(pool, n) == UNION {[1..k -> pool] : k \in 0..n}

\* Column mapper inputs: headers only, the rows play no part in autoDetect.
MapperTemplatePool ==
    {<<"T","i","t","l","e">>, <<"I","t","e","m"," ","N","a","m","e">>, <<"C","o","l","o","u","r">>, <<"#","#","#">>, <<"B","u","l","l","e","t"," ","P","o","i","n","t"," ","1">>}

MapperRawPool ==
    {<<"P","r","o","d","u","c","t"," ","T","i","t","l","e">>, <<"t","i","t","l","e">>, <<"T","I","T","L","E","!">>, <<"I","t","e","m"," ","W","e","i","g","h","t">>, <<"S","h","a","d","e">>, <<"-","-">>}

MapperTemplates ==
    {[headers |-> h, rows |-> <<>>] : h \in DistinctSeqs(MapperTemplatePool, MaxTemplateHeaders)}

MapperRaws ==
    {[headers |-> h, rows |-> <<>>] : h \in DistinctSeqs(MapperRawPool, MaxRawHeaders)}

\* Synthesizer inputs: raw columns with a sample cell each.
RECURSIVE Repeat(_, _)
Repeat(s, n) == IF n = 0 THEN <<>> ELSE s \o Repeat(s, n - 1)

\* A description whose first qualifying segment is longer than BulletMaxLength.
LongDescription == <<"S","o","f","t","."," ">> \o Repeat(<<"d","u","r","a","b","l","e"," ","b","r","e","a","t","h","a","b","l","e"," ","f","a","b","r","i","c"," ">>, 8) \o <<"|"," ","I","m","p","o","r","t","e","d">>

SynthSamples == <<
    <<<<"B","r","a","n","d"," ","N","a","m","e">>, <<"A","c","m","e">>>>,
    <<<<"I","t","e","m"," ","N","a","m","e">>, <<"R","u","n","n","e","r"," ","S","h","o","e">>>>,
    <<<<"D","e","s","c","r","i","p","t","i","o","n">>, <<"L","i","g","h","t","w","e","i","g","h","t"," ","m","e","s","h"," ","u","p","p","e","r","."," ","G","r","e","a","t"," ","f","o","r"," ","d","a","i","l","y"," ","r","u","n","s"," ","a","n","d"," ","c","a","s","u","a","l"," ","w","e","a","r",".">>>>,
    <<<<"P","r","o","d","u","c","t"," ","D","e","s","c","r","i","p","t","i","o","n">>, LongDescription>>,
    <<<<"M","a","t","e","r","i","a","l">>, <<"C","o","t","t","o","n">>>>,
    <<<<"C","o","l","o","r">>, <<"R","e","d">>>>
>>

SampleCell(h) == SynthSamples[CHOOSE i \in DOMAIN SynthSamples : SynthSamples[i][1] = h][2]

\* A row of the raw sheet: every cell filled, every cell the empty string, or
\* no cell at all.
RowVariants == {"full", "blank", "sparse"}

RowOf(headers, variant) ==
    IF variant = "full" THEN [h \in Range(headers) |-> SampleCell(h)]
    ELSE IF variant = "blank" THEN [h \in Range(headers) |-> <<>>]
    ELSE <<>>

SynthTemplateHeaders == {
    <<<<"T","i","t","l","e">>>>,
    <<<<"L","i","s","t","i","n","g"," ","T","i","t","l","e">>, <<"N","o","t","e","s">>>>,
    <<<<"B","u","l","l","e","t"," ","P","o","i","n","t"," ","1">>, <<"S","e","a","r","c","h"," ","K","e","y","w","o","r","d","s">>>>,
    <<<<"B","u","l","l","e","t"," ","K","e","y","w","o","r","d","s">>>>
}

\* The last one is the sheet without columns that handleFileUpload rejects.
SynthRawHeaders == {
    <<<<"B","r","a","n","d"," ","N","a","m","e">>, <<"I","t","e","m"," ","N","a","m","e">>>>,
    <<<<"I","t","e","m"," ","N","a","m","e">>, <<"B","r","a","n","d"," ","N","a","m","e">>>>,
    <<<<"D","e","s","c","r","i","p","t","i","o","n">>, <<"C","o","l","o","r">>, <<"M","a","t","e","r","i","a","l">>>>,
    <<<<"C","o","l","o","r">>, <<"M","a","t","e","r","i","a","l">>>>,
    <<<<"P","r","o","d","u","c","t"," ","D","e","s","c","r","i","p","t","i","o","n">>>>,
    <<>>
}

SynthTemplates == {[headers |-> h, rows |-> <<>>] : h \in SynthTemplateHeaders}

SynthRaws ==
    {[headers |-> h, rows |-> [i \in DOMAIN v |-> RowOf(h, v[i])]] :
        h \in SynthRawHeaders, v \in SeqsUpTo(RowVariants, MaxRows)}

-----------------------------------------------------------------------------
(* Specifications *)

InitCatalog ==
    /\ template = Null
    /\ raw = Null
    /\ mappings = <<>>
    /\ preview = <<>>
    /\ exported = Null
    /\ lastOp = "init"
    /\ enrichmentNotes = <<>>
    /\ isGenerating = FALSE
    /\ activeMarketplace = "Amazon"
    /\ enriching = Null

InitServer ==
    /\ pending = Null
    /\ served = Null

\* VoiceAgent after its first render and effects, on a browser with speech
\* recognition.
InitVoice ==
    /\ messages = <<>>
    /\ input = <<>>
    /\ isProcessing = FALSE
    /\ autoSpeak = TRUE
    /\ recognition = [state |-> "idle", error |-> FALSE, transcript |-> <<>>,
                      isFinal |-> FALSE, ref |-> TRUE]
    /\ engine = "off"
    /\ effectDeps = [input |-> <<>>, submit |-> <<<<>>, <<>>, TRUE, FALSE, <<>>>>]
    /\ inflight = <<>>
    /\ posts = 0
    /\ userActions = 0

\* The column mapper: both sheets uploaded in either order, any number of times.
InitMapper ==
    /\ files \in [template : MapperTemplates, raw : MapperRaws]
    /\ InitCatalog
    /\ apiKey = FALSE
    /\ InitServer
    /\ InitVoice

NextMapper == UploadTemplate \/ UploadRaw

SpecMapper == InitMapper /\ [][NextMapper]_vars

\* The synthesizer: uploads, manual overrides and exports.
InitSynth ==
    /\ files \in [template : SynthTemplates, raw : SynthRaws]
    /\ InitCatalog
    /\ apiKey = FALSE
    /\ InitServer
    /\ InitVoice

NextSynth == UploadTemplate \/ UploadRaw \/ MappingChange \/ generateFullWorkbook

SpecSynth == InitSynth /\ [][NextSynth]_vars

\* The route alone: any client posts any body, one request at a time.
Messages == {
    <<"P","l","a","n"," ","a"," ","p","r","o","d","u","c","t"," ","l","a","u","n","c","h"," ","s","c","h","e","d","u","l","e"," ","f","o","r"," ","F","l","i","p","k","a","r","t",".">>,
    <<"D","r","a","f","t"," ","l","i","s","t","i","n","g"," ","c","o","p","y"," ","f","o","r"," ","a"," ","M","e","n","'","s"," ","r","u","n","n","i","n","g"," ","s","h","o","e",".">>,
    <<"S","c","h","e","d","u","l","e"," ","t","h","e"," ","c","a","t","a","l","o","g"," ","u","p","l","o","a","d"," ","f","o","r"," ","M","o","n","d","a","y">>,
    <<"R","e","m","i","n","d"," ","m","e"," ","t","o"," ","u","p","d","a","t","e"," ","t","h","e"," ","S","H","E","E","T">>,
    <<"A","d","d"," ","a"," ","T","A","S","K"," ","f","o","r"," ","t","o","m","o","r","r","o","w">>,
    <<"W","h","a","t"," ","i","s"," ","t","h","e"," ","w","e","a","t","h","e","r","?">>,
    <<>>
}

Histories == {<<>>, <<[role |-> "user", content |-> <<"h","e","l","l","o">>],
                      [role |-> "assistant", content |-> StandbyReply]>>}

DialogueBodies ==
    {[mode |-> m, message |-> msg, history |-> h, marketplace |-> "Amazon", sample |-> <<>>] :
        m \in {"voice", "text", "absent"}, msg \in Messages, h \in Histories}

EnrichmentBodies ==
    {[mode |-> "catalog-enrichment", message |-> <<>>, history |-> <<>>,
      marketplace |-> mp, sample |-> sm] :
        mp \in {"Amazon", "Myntra"},
        sm \in {<<>>, <<[h \in {<<"T","i","t","l","e">>} |-> <<"A","c","m","e"," ","R","u","n","n","e","r"," ","S","h","o","e">>]>>}}

GatewayCalls == {
    Resolved(<<<<"-"," ","U","s","e"," ","l","o","n","g","-","t","a","i","l"," ","k","e","y","w","o","r","d","s","\n","\n","2","."," ","A","t","t","a","c","h"," ","G","S","T"," ","d","o","c","u","m","e","n","t","s","\n">>>>),
    Resolved(<<<<"Y","o","u","r"," ","p","l","a","n"," ","i","s"," ","r","e","a","d","y",".">>>>),
    Resolved(<<<<>>>>),
    Resolved(<<>>),
    Rejected
}

InitRoute ==
    /\ apiKey \in BOOLEAN
    /\ InitServer
    /\ InitVoice
    /\ files = [template |-> [headers |-> <<>>, rows |-> <<>>],
                raw |-> [headers |-> <<>>, rows |-> <<>>]]
    /\ InitCatalog

NextRoute ==
    \/ \E body \in DialogueBodies \cup EnrichmentBodies : Receive(body)
    \/ \E call \in GatewayCalls : Respond(call)

SpecRoute == InitRoute /\ [][NextRoute]_vars

\* The voice agent and the route behind it.
MaxCues == 1

QuickCues == {defaultPrompts[i] : i \in 1..MaxCues}

TypedTexts == {<<>>, <<" ">>, <<"g","o">>}

Transcripts == {<<"g","o">>, <<"g","o"," ","n","o","w">>}

VoiceGatewayCalls == {Resolved(<<<<"Y","o","u","r"," ","p","l","a","n"," ","i","s"," ","r","e","a","d","y",".">>>>), Resolved(<<<<>>>>), Rejected}

InitVoiceAgent ==
    /\ apiKey \in BOOLEAN
    /\ InitServer
    /\ InitVoice
    /\ files = [template |-> [headers |-> <<>>, rows |-> <<>>],
                raw |-> [headers |-> <<>>, rows |-> <<>>]]
    /\ InitCatalog

NextVoice ==
    \/ RunEffects
    \/ \E text \in TypedTexts : Type(text)
    \/ ClickSend
    \/ \E prompt \in QuickCues : ClickCue(prompt)
    \/ ToggleAutoSpeak
    \/ ToggleMic
    \/ OnStart
    \/ \E text \in Transcripts, final \in BOOLEAN : OnResult(text, final)
    \/ OnError
    \/ OnEnd
    \/ \E i \in DOMAIN inflight :
         \/ Settle(i, NetworkFailure)
         \/ \E call \in VoiceGatewayCalls : Settle(i, POST(inflight[i], call))

SpecVoice == InitVoiceAgent /\ [][NextVoice]_vars

\* The catalog assistant with the route behind its enrichment button.
EnrichTemplates == {[headers |-> <<<<"T","i","t","l","e">>, <<"S","e","a","r","c","h"," ","K","e","y","w","o","r","d","s">>>>, rows |-> <<>>]}

EnrichRaws ==
    {[headers |-> h, rows |-> [i \in DOMAIN v |-> RowOf(h, v[i])]] :
        h \in {<<<<"B","r","a","n","d"," ","N","a","m","e">>, <<"I","t","e","m"," ","N","a","m","e">>>>, <<<<"C","o","l","o","r">>, <<"M","a","t","e","r","i","a","l">>>>},
        v \in SeqsUpTo({"full"}, MaxRows)}

InitEnrich ==
    /\ files \in [template : EnrichTemplates, raw : EnrichRaws]
    /\ InitCatalog
    /\ apiKey \in BOOLEAN
    /\ InitServer
    /\ InitVoice

NextEnrich ==
    \/ UploadTemplate
    \/ UploadRaw
    \/ \E marketplace \in Range(marketplaces) : SelectMarketplace(marketplace)
    \/ RunEnrichment
    \/ SettleEnrichment(NetworkFailure)
    \/ \E call \in GatewayCalls : enriching # Null /\ SettleEnrichment(POST(enriching[1], call))

SpecEnrich == InitEnrich /\ [][NextEnrich]_vars

\* The catalog assistant as its user drives it: uploads (a sheet without
\* columns among them), manual overrides, exports and enrichment calls.
CatalogTemplateHeaders == {<<<<"T","i","t","l","e">>, <<"S","e","a","r","c","h"," ","K","e","y","w","o","r","d","s">>>>, <<>>}

CatalogRawHeaders == {<<<<"B","r","a","n","d"," ","N","a","m","e">>, <<"I","t","e","m"," ","N","a","m","e">>>>, <<<<"C","o","l","o","r">>, <<"M","a","t","e","r","i","a","l">>>>, <<>>}

CatalogTemplates == {[headers |-> h, rows |-> <<>>] : h \in CatalogTemplateHeaders}

CatalogRaws ==
    {[headers |-> h, rows |-> [i \in DOMAIN v |-> RowOf(h, v[i])]] :
        h \in CatalogRawHeaders, v \in SeqsUpTo({"full"}, MaxRows)}

InitCatalogAssistant ==
    /\ files \in [template : CatalogTemplates, raw : CatalogRaws]
    /\ InitCatalog
    /\ apiKey \in BOOLEAN
    /\ InitServer
    /\ InitVoice

NextCatalog ==
    \/ UploadTemplate
    \/ UploadRaw
    \/ MappingChange
    \/ generateFullWorkbook
    \/ RunEnrichment
    \/ SettleEnrichment(NetworkFailure)
    \/ \E call \in {Resolved(<<<<"-"," ","U","s","e"," ","l","o","n","g","-","t","a","i","l"," ","k","e","y","w","o","r","d","s">>>>), Rejected} :
         enriching # Null /\ SettleEnrichment(POST(enriching[1], call))

SpecCatalog == InitCatalogAssistant /\ [][NextCatalog]_vars

\* Uploads of changing files: each file input is used again and again with
\* another file, the sheet without columns among them.
UploadRaws == {r \in CatalogRaws : Len(r.rows) = 1}

InitUpload ==
    /\ files \in [template : CatalogTemplates, raw : UploadRaws]
    /\ InitCatalog
    /\ apiKey = FALSE
    /\ InitServer
    /\ InitVoice

NextUpload ==
    \/ \E sheet \in CatalogTemplates : PickFile("template", sheet)
    \/ \E sheet \in UploadRaws : PickFile("raw", sheet)
    \/ UploadTemplate
    \/ UploadRaw
    \/ MappingChange

SpecUpload == InitUpload /\ [][NextUpload]_vars

-----------------------------------------------------------------------------
(* Claims about the column mapper, checked under SpecMapper *)

\* The state an upload leaves once both sheets are set: mappings is then the
\* result of autoDetectMappings on them.
Detected == lastOp = "upload" /\ template # Null /\ raw # Null

TemplateHeaders == Range(template[1].headers)

RawHeader(i) == raw[1].headers[i]

RawIndexes == DOMAIN raw[1].headers

Norm(h) == normalizeKey(h)

\* The text of target before its first space.
FirstToken(target) ==
    LET spaces == {i \in DOMAIN target : target[i] = " "}
    IN  IF spaces = {} THEN target ELSE SubSeq(target, 1, Min(spaces) - 1)

ExactCandidates(T) == {i \in RawIndexes : Norm(RawHeader(i)) = Norm(T)}

\* The raw headers containing an alias of a canonical field that lists Norm(T).
SynonymCandidates(T) ==
    {i \in RawIndexes :
        \E e \in Range(synonymMatrix) :
            /\ Norm(T) \in Range(e.values)
            /\ \E alias \in Range(e.values) : includes(Norm(RawHeader(i)), alias)}

FuzzyCandidates(T) ==
    {i \in RawIndexes : includes(Norm(RawHeader(i)), FirstToken(Norm(T)))}

\* mappings[T] is the first raw header among the candidates.
MapsToFirstOf(T, candidates) ==
    /\ T \in DOMAIN mappings
    /\ \E i \in candidates :
         /\ mappings[T] = RawHeader(i)
         /\ \A j \in candidates : i <= j

\* C1: after autoDetect, every template header with a raw header of the same
\* normalized form is mapped to the first such raw header in declaration
\* order, whatever the synonym and fuzzy tiers would match and wherever.
C1_ExactTierPrecedence ==
    Detected =>
        \A T \in TemplateHeaders :
            ExactCandidates(T) # {} => MapsToFirstOf(T, ExactCandidates(T))

\* The exact match is chosen although an earlier raw header matches through
\* the synonym tier and the fuzzy tier.
C1_Witness ==
    /\ Detected
    /\ \E T \in TemplateHeaders :
         \E i \in ExactCandidates(T) :
            /\ T \in DOMAIN mappings /\ mappings[T] = RawHeader(i)
            /\ \E j \in SynonymCandidates(T) \cap FuzzyCandidates(T) : j < i

\* C9: after autoDetect, a template header without an exact match whose
\* normalized form is an alias of a canonical field is mapped to the first raw
\* header containing any alias of that field; only when there is none does
\* the fuzzy tier decide (its first candidate, or no entry).
C9_SynonymTier ==
    Detected =>
        \A T \in TemplateHeaders :
            (/\ ExactCandidates(T) = {}
             /\ \E e \in Range(synonymMatrix) : Norm(T) \in Range(e.values))
            => IF SynonymCandidates(T) # {}
               THEN MapsToFirstOf(T, SynonymCandidates(T))
               ELSE IF FuzzyCandidates(T) # {}
               THEN MapsToFirstOf(T, FuzzyCandidates(T))
               ELSE T \notin DOMAIN mappings

\* The synonym tier picks a raw header that is not the first one, past an
\* earlier raw header the fuzzy tier would have matched.
C9_Witness ==
    /\ Detected
    /\ \E T \in TemplateHeaders :
         /\ ExactCandidates(T) = {}
         /\ \E i \in SynonymCandidates(T) :
              /\ T \in DOMAIN mappings /\ mappings[T] = RawHeader(i)
              /\ \E j \in FuzzyCandidates(T) \ SynonymCandidates(T) : j < i

\* C10: after autoDetect, a template header whose normalized form is empty is
\* mapped to the first raw header when no raw header normalizes to the empty
\* string, and a template header has no entry only when no tier has a candidate.
C10_FuzzyEmptyToken ==
    Detected =>
        \A T \in TemplateHeaders :
            /\ (Norm(T) = <<>> /\ \A i \in RawIndexes : Norm(RawHeader(i)) # <<>>)
                => T \in DOMAIN mappings /\ mappings[T] = RawHeader(1)
            /\ T \notin DOMAIN mappings
                => /\ ExactCandidates(T) = {}
                   /\ SynonymCandidates(T) = {}
                   /\ FuzzyCandidates(T) = {}

\* A header without alphanumeric characters is mapped to the first of two raw
\* headers while another template header is left without an entry.
C10_Witness ==
    /\ Detected
    /\ Len(raw[1].headers) >= 2
    /\ \A i \in RawIndexes : Norm(RawHeader(i)) # <<>>
    /\ \E T \in TemplateHeaders :
         Norm(T) = <<>> /\ T \in DOMAIN mappings /\ mappings[T] = RawHeader(1)
    /\ \E T \in TemplateHeaders : T \notin DOMAIN mappings

-----------------------------------------------------------------------------
(* Claims about synthesis and materialization, checked under SpecSynth *)

Loaded == template # Null /\ raw # Null

RawRows == raw[1].rows

\* rows is the materialization of the first n raw rows: one row per raw row,
\* in the raw rows' order, each with exactly the template headers as keys.
\* The order shows in the mapped cells, which repeat the raw row's cell.
MaterializedFrom(rows, n) ==
    /\ Len(rows) = n
    /\ \A i \in 1..n :
         /\ DOMAIN rows[i] = TemplateHeaders
         /\ \A T \in TemplateHeaders :
              Lookup(mappings, T) # <<>>
                  => rows[i][T] = Lookup(RawRows[i], mappings[T])

\* C2: the preview and the exported workbook hold one row per raw row (the
\* preview at most PreviewLimit of them), in the same order, and each row's
\* keys are exactly the template headers, whatever the mapping and the cells.
C2_MaterializeShape ==
    /\ Loaded =>
          MaterializedFrom(preview,
              IF Len(RawRows) < PreviewLimit THEN Len(RawRows) ELSE PreviewLimit)
    /\ exported # Null =>
          /\ exported[1].headers = template[1].headers
          /\ MaterializedFrom(exported[1].rows, Len(RawRows))

\* An export of two different raw rows, one of them without cells, under a
\* mapping with a mapped entry, an entry set to empty and a missing entry.
C2_Witness ==
    /\ exported # Null
    /\ Len(RawRows) = 2 /\ RawRows[1] # RawRows[2]
    /\ \E i \in DOMAIN RawRows : RawRows[i] = <<>>
    /\ \E T \in TemplateHeaders : T \notin DOMAIN mappings
    /\ \E T \in TemplateHeaders : T \in DOMAIN mappings /\ mappings[T] = <<>>

\* C6 (as claimed): with raw headers "Brand Name", "Item Name" in that order
\* and template header "Title" unmapped, a row with brand "Acme" and name
\* "Runner Shoe" gets the title "Acme Runner Shoe".
C6_TitleExample ==
    (/\ Loaded
     /\ raw[1].headers = <<<<"B","r","a","n","d"," ","N","a","m","e">>, <<"I","t","e","m"," ","N","a","m","e">>>>
     /\ <<"T","i","t","l","e">> \in TemplateHeaders
     /\ Lookup(mappings, <<"T","i","t","l","e">>) = <<>>)
    => \A i \in DOMAIN preview :
          (/\ Lookup(RawRows[i], <<"B","r","a","n","d"," ","N","a","m","e">>) = <<"A","c","m","e">>
           /\ Lookup(RawRows[i], <<"I","t","e","m"," ","N","a","m","e">>) = <<"R","u","n","n","e","r"," ","S","h","o","e">>)
          => preview[i][<<"T","i","t","l","e">>] = <<"A","c","m","e"," ","R","u","n","n","e","r"," ","S","h","o","e">>

\* The value the bullet rule is claimed to give: the first trimmed segment of
\* the description longer than 20 characters, cut to 180, and the empty
\* string without a description column, cell or qualifying segment.
ClaimedBullet(row) ==
    LET described == {i \in RawIndexes : includes(Norm(RawHeader(i)), <<"d","e","s","c","r","i","p","t","i","o","n">>)}
        desc == IF described = {} THEN <<>> ELSE Lookup(row, RawHeader(Min(described)))
    IN  IF desc = <<>> THEN <<>> ELSE bulletFill(desc)

\* C7 (as claimed): every unmapped template header whose normalized form
\* contains "bullet" and not "title" gets the bullet rule's value, the empty
\* string included; the keywords rule is never applied to it.
C7_BulletRuleWins ==
    Loaded =>
        \A T \in TemplateHeaders :
            (/\ Lookup(mappings, T) = <<>>
             /\ includes(Norm(T), <<"b","u","l","l","e","t">>)
             /\ ~includes(Norm(T), <<"t","i","t","l","e">>))
            => \A i \in DOMAIN preview : preview[i][T] = ClaimedBullet(RawRows[i])

-----------------------------------------------------------------------------
(* Claims about the route, checked under SpecRoute *)

\* The request POST answered last was a dialogue request (reply) or an
\* enrichment request (enrich).
ServedDialogue == served # Null /\ modeOf(served[1].body) # "catalog-enrichment"

ServedEnrichment == served # Null /\ modeOf(served[1].body) = "catalog-enrichment"

\* The gateway was configured and its call failed.
GatewayFailed == apiKey /\ served[1].call.kind = "reject"

\* C3 (as claimed): when the gateway is configured and the call rejects, the
\* caller of enrich gets the four fallback strings, not an error response.
C3_EnrichFailureFallsBack ==
    (ServedEnrichment /\ GatewayFailed)
    => /\ served[1].response.kind = "enrichment"
       /\ served[1].response.enrichment = EnrichmentFallback

\* C4 (as claimed): reply answers every dialogue request with a non-empty
\* string, whether the gateway is unavailable, succeeds (with or without
\* output text) or fails.
C4_ReplyNonEmpty ==
    ServedDialogue
    => /\ served[1].response.kind = "reply"
       /\ served[1].response.reply # <<>>

HasTaskTerm(message) ==
    \E w \in {<<"t","a","s","k">>, <<"r","e","m","i","n","d">>, <<"s","c","h","e","d","u","l","e">>} : includes(toLowerCase(message), w)

HasCatalogTerm(message) ==
    \E w \in {<<"c","a","t","a","l","o","g">>, <<"s","h","e","e","t">>, <<"l","i","s","t","i","n","g">>} : includes(toLowerCase(message), w)

\* C8 (as claimed): with the gateway unavailable, every message containing a
\* task, reminder or schedule term gets the scheduling confirmation, also
\* when it contains a catalog, sheet or listing term.
C8_TaskTermAlwaysWins ==
    (ServedDialogue /\ ~apiKey /\ HasTaskTerm(served[1].body.message))
    => served[1].response.reply = TaskReply

\* C8 (amended): with the gateway unavailable, a message with a task, reminder
\* or schedule term and no catalog, sheet or listing term gets the scheduling
\* confirmation; a message with a catalog, sheet or listing term gets the
\* catalog-upload guidance, whatever else it contains.
C8_DialogueFallback ==
    (ServedDialogue /\ ~apiKey)
    => LET message == served[1].body.message
           reply == served[1].response.reply
       IN  /\ (HasTaskTerm(message) /\ ~HasCatalogTerm(message)) => reply = TaskReply
           /\ HasCatalogTerm(message) => reply = CatalogReply

\* A message with "schedule" and no catalog term was answered without the
\* gateway, with the scheduling confirmation.
C8_Witness ==
    /\ ServedDialogue /\ ~apiKey
    /\ includes(toLowerCase(served[1].body.message), <<"s","c","h","e","d","u","l","e">>)
    /\ ~HasCatalogTerm(served[1].body.message)
    /\ served[1].response.reply = TaskReply

-----------------------------------------------------------------------------
(* Claims about the voice agent, checked under SpecVoice *)

\* C5 (as claimed): the requests issued to the assistant endpoint never
\* outnumber the submits the user initiated (text submits, quick-cue clicks,
\* finalized voice transcripts): an action causes one POST, whatever state
\* updates follow it.
C5_OnePostPerAction == posts <= userActions

-----------------------------------------------------------------------------
(* Claims about the catalog assistant, checked under SpecCatalog *)

\* The choices of a mapping select: the empty value and the raw headers.
SelectChoices == {<<>>} \cup Range(raw[1].headers)

\* A step that writes the entry of the one header h and nothing else of the
\* Mapping: no key disappears, none but h appears, no other value changes.
OverridesOnly(h) ==
    /\ DOMAIN mappings' = DOMAIN mappings \cup {h}
    /\ mappings'[h] \in SelectChoices
    /\ \A k \in DOMAIN mappings \ {h} : mappings'[k] = mappings[k]

OverrideStep ==
    /\ lastOp' = "mappingChange"
    /\ template' = template /\ raw' = raw
    /\ \E h \in Range(template[1].headers) : OverridesOnly(h)

\* A step that stores a sheet, after which the Mapping is the detected one.
RecomputeStep ==
    /\ lastOp' = "upload"
    /\ template' # Null /\ raw' # Null
    /\ mappings' = autoDetectMappings(template'[1], raw'[1])

\* C11: a manual override writes exactly the entry of its template header
\* and leaves every other entry alone, and the Mapping, hence every overridden
\* entry, changes in no step other than an override or the full autoDetect
\* recompute that follows an accepted upload: previews, enrichment calls,
\* their completions, exports and rejected uploads keep it.
C11_OverridePersists ==
    [][/\ mappings' # mappings => OverrideStep \/ RecomputeStep
       /\ (lastOp' = "mappingChange" /\ lastOp' # lastOp) => OverrideStep]_vars

\* C11 witness: an entry overridden away from the detected Mapping is still
\* in place after an enrichment call has completed and an export has run.
C11_Witness ==
    /\ Loaded
    /\ mappings # autoDetectMappings(template[1], raw[1])
    /\ enrichmentNotes # <<>>
    /\ exported # Null

-----------------------------------------------------------------------------
(* Claims about enrichment without a credential, checked under SpecRoute *)

\* The fallback list as the specification documents it.
DocumentedFallback == <<
    <<"T","i","g","h","t","e","n"," ","y","o","u","r"," ","k","e","y","w","o","r","d"," ","d","e","n","s","i","t","y"," ","(","b","r","a","n","d"," ","+"," ","u","s","a","g","e"," ","+"," ","m","a","t","e","r","i","a","l",")"," ","t","o"," ","l","i","f","t"," ","v","i","s","i","b","i","l","i","t","y",".">>,
    <<"S","t","a","n","d","a","r","d","i","z","e"," ","b","u","l","l","e","t"," ","p","o","i","n","t","s"," ","w","i","t","h"," ","1","8","0"," ","c","h","a","r","a","c","t","e","r"," ","c","o","n","c","i","s","i","o","n"," ","a","n","d"," ","f","e","a","t","u","r","e","-","f","i","r","s","t"," ","c","o","p","y",".">>,
    <<"C","r","o","s","s","-","c","h","e","c","k"," ","t","a","x","o","n","o","m","y"," ","f","o","r"," ","e","v","e","r","y"," ","c","h","a","n","n","e","l",":"," ","A","m","a","z","o","n"," ","b","r","o","w","s","e"," ","n","o","d","e"," ","v","s","."," ","M","y","n","t","r","a"," ","g","e","n","d","e","r"," ","c","a","t","e","g","o","r","y"," ","v","s","."," ","F","l","i","p","k","a","r","t"," ","v","e","r","t","i","c","a","l",".">>,
    <<"A","t","t","a","c","h"," ","c","o","m","p","l","i","a","n","c","e"," ","d","o","c","s"," ","(","G","S","T",","," ","p","r","o","d","u","c","t"," ","c","e","r","t","i","f","i","c","a","t","i","o","n","s",")"," ","f","o","r"," ","r","e","s","t","r","i","c","t","e","d"," ","c","a","t","e","g","o","r","i","e","s"," ","b","e","f","o","r","e"," ","u","p","l","o","a","d",".">>
>>

\* C12: with no credential configured, every enrichment request, whatever
\* its marketplace and sample rows, is answered with status 200 and exactly
\* the four documented fallback strings in their order; the outcome the
\* gateway call would have had plays no part, the call is never made.
C12_NoCredentialFallback ==
    (ServedEnrichment /\ ~apiKey) =>
        /\ served[1].response.status = 200
        /\ served[1].response.kind = "enrichment"
        /\ served[1].response.enrichment = DocumentedFallback

\* C12 witness: an enrichment request with sample rows for a marketplace
\* other than the default, served without a credential, where the gateway
\* call would have been rejected had it been made.
C12_Witness ==
    /\ ServedEnrichment
    /\ ~apiKey
    /\ served[1].call = Rejected
    /\ served[1].body.marketplace = "Myntra"
    /\ served[1].body.sample # <<>>
    /\ Len(served[1].response.enrichment) = 4

-----------------------------------------------------------------------------
(* Claims about keyword synthesis, checked under SpecSynth *)

\* The keys of the keywords rule in the order the claim fixes.
ClaimedKeywordOrder == <<<<"m","a","t","e","r","i","a","l">>, <<"c","o","l","o","r">>, <<"s","i","z","e">>, <<"c","a","t","e","g","o","r","y">>>>

\* The cell of the first raw header, in declaration order, whose normalized
\* form contains key; the empty string without such a header or cell.
FirstCellFor(row, key) ==
    LET holders == {i \in RawIndexes : includes(Norm(RawHeader(i)), key)}
    IN  IF holders = {} THEN <<>> ELSE Lookup(row, RawHeader(Min(holders)))

\* The value the keywords rule is claimed to give for one raw row.
ClaimedKeywords(row) ==
    LET cells == [k \in DOMAIN ClaimedKeywordOrder |->
                    toLowerCase(FirstCellFor(row, ClaimedKeywordOrder[k]))]
    IN  join(SelectSeq(cells, LAMBDA cell : cell # <<>>), <<","," ">>)

\* C13: every unmapped template header whose normalized form contains
\* "keywords" and neither "title" nor "bullet" gets, in every row, the
\* lowercased non-empty cells of the first raw header containing material,
\* color, size and category, in that key order whatever the order of the raw
\* headers, joined with ", "; in particular "Search Keywords" over a row with
\* material "Cotton", color "Red" and no size or category column is
\* "cotton, red".
C13_KeywordSynthesis ==
    Loaded =>
        /\ \A T \in TemplateHeaders :
              (/\ Lookup(mappings, T) = <<>>
               /\ includes(Norm(T), <<"k","e","y","w","o","r","d","s">>)
               /\ ~includes(Norm(T), <<"t","i","t","l","e">>)
               /\ ~includes(Norm(T), <<"b","u","l","l","e","t">>))
              => \A i \in DOMAIN preview : preview[i][T] = ClaimedKeywords(RawRows[i])
        /\ (/\ <<"S","e","a","r","c","h"," ","K","e","y","w","o","r","d","s">> \in TemplateHeaders
            /\ Lookup(mappings, <<"S","e","a","r","c","h"," ","K","e","y","w","o","r","d","s">>) = <<>>
            /\ \A j \in RawIndexes : ~includes(Norm(RawHeader(j)), <<"s","i","z","e">>)
                                     /\ ~includes(Norm(RawHeader(j)), <<"c","a","t","e","g","o","r","y">>))
           => \A i \in DOMAIN preview :
                 (/\ FirstCellFor(RawRows[i], <<"m","a","t","e","r","i","a","l">>) = <<"C","o","t","t","o","n">>
                  /\ FirstCellFor(RawRows[i], <<"c","o","l","o","r">>) = <<"R","e","d">>)
                 => preview[i][<<"S","e","a","r","c","h"," ","K","e","y","w","o","r","d","s">>] = <<"c","o","t","t","o","n",","," ","r","e","d">>

\* C13 witness: "Search Keywords" is unmapped, the raw sheet declares its
\* color column before its material column, and a previewed row holds
\* "cotton, red".
C13_Witness ==
    /\ Loaded
    /\ raw[1].headers = <<<<"C","o","l","o","r">>, <<"M","a","t","e","r","i","a","l">>>>
    /\ <<"S","e","a","r","c","h"," ","K","e","y","w","o","r","d","s">> \in TemplateHeaders
    /\ Lookup(mappings, <<"S","e","a","r","c","h"," ","K","e","y","w","o","r","d","s">>) = <<>>
    /\ \E i \in DOMAIN preview :
          /\ Lookup(RawRows[i], <<"C","o","l","o","r">>) = <<"R","e","d">>
          /\ Lookup(RawRows[i], <<"M","a","t","e","r","i","a","l">>) = <<"C","o","t","t","o","n">>
          /\ preview[i][<<"S","e","a","r","c","h"," ","K","e","y","w","o","r","d","s">>] = <<"c","o","t","t","o","n",","," ","r","e","d">>

-----------------------------------------------------------------------------
(* Claims about malformed uploads, checked under SpecUpload *)

\* A stored sheet, if any, has at least one header.
HasColumns(slot) == slot # Null => Len(slot[1].headers) > 0

\* C14: an upload of a sheet without headers ends in the error outcome and
\* changes nothing: a step that ends in the error outcome leaves the stored
\* template, raw sheet, Mapping and preview as they were, and neither slot
\* ever holds a sheet without headers, so such an upload is never processed,
\* partly or wholly, in the template slot or the raw slot.
C14_MalformedUploadRejected ==
    /\ [](HasColumns(template) /\ HasColumns(raw))
    /\ [][(lastOp' = "uploadRejected" => UNCHANGED <<template, raw, mappings, preview>>)
          /\ ((lastOp' = "upload" /\ lastOp = "uploadRejected")
                 => \E type \in {"template", "raw"} : Len(files[type].headers) > 0)]_vars

\* C14 witness: with both sheets stored, an override in the Mapping and a
\* preview row on screen, the files selected in both slots have no headers
\* and the last upload ended in the error outcome.
C14_Witness ==
    /\ lastOp = "uploadRejected"
    /\ Loaded
    /\ mappings # <<>>
    /\ preview # <<>>
    /\ Len(files.template.headers) = 0
    /\ Len(files.raw.headers) = 0

-----------------------------------------------------------------------------
(* Claims about the empty override, checked under SpecSynth *)

\* The Mapping with the entry of T deleted.
WithoutEntry(T) == [h \in DOMAIN mappings \ {T} |-> mappings[h]]

\* T has an entry and the entry is the empty value of "-- Empty --".
OverriddenToEmpty(T) == T \in DOMAIN mappings /\ mappings[T] = <<>>

\* C15: a template header overridden to the empty value is materialized, in
\* every previewed and exported row, exactly as if the Mapping had no entry
\* for it: its cell is the smart-fill result (title, bullet or keywords rule,
\* else the empty string), not necessarily the empty string.
C15_EmptyOverrideIsUnmapped ==
    Loaded =>
        \A T \in TemplateHeaders :
            OverriddenToEmpty(T) =>
                /\ \A i \in DOMAIN preview :
                      /\ preview[i][T] = cellFor(T, RawRows[i], WithoutEntry(T), raw[1].headers)
                      /\ preview[i][T] = smartFill(T, RawRows[i], raw[1].headers)
                /\ exported # Null =>
                      \A i \in DOMAIN exported[1].rows :
                          exported[1].rows[i][T] =
                              smartFill(T, RawRows[i], raw[1].headers)

\* C15 witness: a header that autoDetect had mapped was overridden to the
\* empty value, and an exported row holds a non-empty cell for it.
C15_Witness ==
    /\ Loaded
    /\ exported # Null
    /\ \E T \in TemplateHeaders :
          /\ OverriddenToEmpty(T)
          /\ T \in DOMAIN autoDetectMappings(template[1], raw[1])
          /\ \E i \in DOMAIN exported[1].rows : exported[1].rows[i][T] # <<>>

-----------------------------------------------------------------------------
(* Claims about the processing flag, checked under SpecVoice *)

\* C16 (as claimed): in every reachable state of the voice agent, under
\* every interleaving of submits and response completions, isProcessing is
\* true while at least one dialogue request is in flight.
C16_ProcessingWhilePending == inflight # <<>> => isProcessing

====
